---- MODULE Spec2Model ----
(***************************************************************************)
(* CSS selector builder of src/src/05-objects-tasks.js: the class          *)
(* CssSelectorClass (constructor, six category methods, stringify) and the *)
(* facade object cssSelectorBuilder (six category entry points, combine).  *)
(*                                                                         *)
(* JavaScript strings are TLA+ strings (\o is +, Len is .length).  An      *)
(* object with optional keys (this.main) is a function whose DOMAIN is the *)
(* set of keys present.  A field that may be undefined is Undefined or     *)
(* Def(s).  The heap is the sequence of CssSelectorClass instances         *)
(* constructed so far; a reference is an index into it.                    *)
(***************************************************************************)
EXTENDS Integers, Sequences, FiniteSets, TLC

VARIABLES heap, hist, last

vars == <<heap, hist, last>>

(***************************************************************************)
(* Bounds of the model.                                                    *)
(***************************************************************************)
\* calls (category calls and stringify) made on the one instance of SpecChain
MaxChain == 3
\* calls made, in total, on the two instances of SpecIso
MaxIsoCalls == 2
\* steps of Spec
MaxSteps == 3

\* steps of SpecNested
MaxNested == 6

\* fragment values handed to the category methods
Values == {"a", "b"}
\* raw strings handed to combine as operands
RawStrings == {"x"}
\* raw strings handed to combine as operands in SpecNested
NestedStrings == {"x", "y"}
\* the combinators of the documentation (line 76)
Combinators == {" ", "+", "~", ">"}

(***************************************************************************)
(* Values of the program.                                                  *)
(***************************************************************************)
Undefined == << >>
Def(s) == << s >>

\* JavaScript truthiness of an optional string: undefined and '' are falsy
Truthy(x) == x # Undefined /\ x[1] # ""

\* `${x}` of an optional string
Interpolate(x) == IF x = Undefined THEN "undefined" ELSE x[1]

\* the category methods in the mandated order, under the names of the methods
Categories == <<"element", "id", "class", "attr", "pseudoClass", "pseudoElement">>

\* the key of this.main each method writes
KeyOf(cat) == IF cat = "class" THEN "className" ELSE cat

errorMsgUnique == "Element, id and pseudo-element should not occur more then one time inside the selector"
errorMsgOrder == "Selector parts should be arranged in the following order: element, id, class, attribute, pseudo-class, pseudo-element"

\* Array.prototype.join
RECURSIVE join(_, _)
join(xs, sep) ==
  IF Len(xs) = 0 THEN ""
  ELSE IF Len(xs) = 1 THEN xs[1]
  ELSE xs[1] \o sep \o join(Tail(xs), sep)

\* this.main.k as a condition: an array is truthy, an absent key is not
Has(main, k) == k \in DOMAIN main

\* the fragment put in front of the array: [value, ...this.main.k]
Put_InFront(main, k, value) ==
  IF k \in DOMAIN main
  THEN [main EXCEPT ![k] = <<value>> \o @]
  ELSE [x \in DOMAIN main \cup {k} |-> IF x = k THEN <<value>> ELSE main[x]]

\* this.main.k = this.main.k ? [...this.main.k, value] : [value]
Put(main, k, value) ==
  IF Has(main, k)
  THEN [main EXCEPT ![k] = Append(@, value)]
  ELSE [x \in DOMAIN main \cup {k} |-> IF x = k THEN <<value>> ELSE main[x]]

\* {}
EmptyObject == [x \in {} |-> << >>]

\* new CssSelectorClass(selectorName, value, selector1, combinator, selector2)
Constructor(selectorName, value, selector1, combinator, selector2) ==
  [ main |-> [x \in {selectorName} |-> <<value>>],
    selector1 |-> selector1,
    combinator |-> combinator,
    selector2 |-> selector2 ]

\* outcome of a method: the instance as the call leaves it, and what the call
\* hands back: kind "return" (the instance itself), "throw" (s is the message)
\* or "string" (s is the string returned)
Return(this) == [this |-> this, kind |-> "return", s |-> ""]
Throw(this, msg) == [this |-> this, kind |-> "throw", s |-> msg]
ReturnString(this, str) == [this |-> this, kind |-> "string", s |-> str]

\* element with the order check made before the uniqueness check
element_OrderFirst(this, value) ==
  LET main == Put(this.main, "element", value)
      self == [this EXCEPT !.main = main]
  IN IF \/ Has(main, "id")
        \/ Has(main, "className")
        \/ Has(main, "attr")
        \/ Has(main, "pseudoClass")
        \/ Has(main, "pseudoElement")
     THEN Throw(self, errorMsgOrder)
     ELSE IF Len(main["element"]) >= 2 THEN Throw(self, errorMsgUnique)
          ELSE Return(self)

\* CssSelectorClass.element
element(this, value) ==
  LET main == Put(this.main, "element", value)
      self == [this EXCEPT !.main = main]
  IN IF Len(main["element"]) >= 2 THEN Throw(self, errorMsgUnique)
     ELSE IF \/ Has(main, "id")
             \/ Has(main, "className")
             \/ Has(main, "attr")
             \/ Has(main, "pseudoClass")
             \/ Has(main, "pseudoElement")
          THEN Throw(self, errorMsgOrder)
          ELSE Return(self)

\* id with the uniqueness check left out
id_NoUnique(this, value) ==
  LET main == Put(this.main, "id", value)
      self == [this EXCEPT !.main = main]
  IN IF \/ Has(main, "className")
        \/ Has(main, "attr")
        \/ Has(main, "pseudoClass")
        \/ Has(main, "pseudoElement")
     THEN Throw(self, errorMsgOrder)
     ELSE Return(self)

\* id with the order check made before the uniqueness check
id_OrderFirst(this, value) ==
  LET main == Put(this.main, "id", value)
      self == [this EXCEPT !.main = main]
  IN IF \/ Has(main, "className")
        \/ Has(main, "attr")
        \/ Has(main, "pseudoClass")
        \/ Has(main, "pseudoElement")
     THEN Throw(self, errorMsgOrder)
     ELSE IF Len(main["id"]) >= 2 THEN Throw(self, errorMsgUnique)
          ELSE Return(self)

\* CssSelectorClass.id
id(this, value) ==
  LET main == Put(this.main, "id", value)
      self == [this EXCEPT !.main = main]
  IN IF Len(main["id"]) >= 2 THEN Throw(self, errorMsgUnique)
     ELSE IF \/ Has(main, "className")
             \/ Has(main, "attr")
             \/ Has(main, "pseudoClass")
             \/ Has(main, "pseudoElement")
          THEN Throw(self, errorMsgOrder)
          ELSE Return(self)

\* class with the attr test of its order check forgotten
class_NoAttrCheck(this, value) ==
  LET main == Put(this.main, "className", value)
      self == [this EXCEPT !.main = main]
  IN IF \/ Has(main, "pseudoClass")
        \/ Has(main, "pseudoElement")
     THEN Throw(self, errorMsgOrder)
     ELSE Return(self)

\* CssSelectorClass.class
class(this, value) ==
  LET main == Put(this.main, "className", value)
      self == [this EXCEPT !.main = main]
  IN IF \/ Has(main, "attr")
        \/ Has(main, "pseudoClass")
        \/ Has(main, "pseudoElement")
     THEN Throw(self, errorMsgOrder)
     ELSE Return(self)

\* CssSelectorClass.attr
attr(this, value) ==
  LET main == Put(this.main, "attr", value)
      self == [this EXCEPT !.main = main]
  IN IF \/ Has(main, "pseudoClass")
        \/ Has(main, "pseudoElement")
     THEN Throw(self, errorMsgOrder)
     ELSE Return(self)

\* pseudoClass checking first and appending only when the check passes
pseudoClass_CheckFirst(this, value) ==
  IF Has(this.main, "pseudoElement")
  THEN Throw(this, errorMsgOrder)
  ELSE Return([this EXCEPT !.main = Put(this.main, "pseudoClass", value)])

\* CssSelectorClass.pseudoClass
pseudoClass(this, value) ==
  LET main == Put(this.main, "pseudoClass", value)
      self == [this EXCEPT !.main = main]
  IN IF Has(main, "pseudoElement")
     THEN Throw(self, errorMsgOrder)
     ELSE Return(self)

\* CssSelectorClass.pseudoElement
pseudoElement(this, value) ==
  LET main == Put(this.main, "pseudoElement", value)
      self == [this EXCEPT !.main = main]
  IN IF Len(main["pseudoElement"]) >= 2 THEN Throw(self, errorMsgUnique)
     ELSE Return(self)

\* this[cat](value) for a category method name cat
Invoke(this, cat, value) ==
  CASE cat = "element" -> element(this, value)
    [] cat = "id" -> id(this, value)
    [] cat = "class" -> class(this, value)
    [] cat = "attr" -> attr(this, value)
    [] cat = "pseudoClass" -> pseudoClass(this, value)
    [] cat = "pseudoElement" -> pseudoElement(this, value)

\* the simple branch with each attr fragment in brackets of its own
SimpleString_BracketEach(main) ==
  LET s1 == IF Has(main, "element") THEN join(main["element"], "") ELSE ""
      s2 == IF Has(main, "id") THEN s1 \o "#" \o join(main["id"], "") ELSE s1
      s3 == IF Has(main, "className")
            THEN s2 \o "." \o join(main["className"], ".") ELSE s2
      s4 == IF Has(main, "attr")
            THEN s3 \o "[" \o join(main["attr"], "][") \o "]" ELSE s3
      s5 == IF Has(main, "pseudoClass")
            THEN s4 \o ":" \o join(main["pseudoClass"], ":") ELSE s4
      s6 == IF Has(main, "pseudoElement")
            THEN s5 \o "::" \o join(main["pseudoElement"], "") ELSE s5
  IN s6

\* CssSelectorClass.stringify, the simple branch (lines 219-238): one step of
\* cssSelector += ... for each key present, in the fixed order of the code
SimpleString(main) ==
  LET s1 == IF Has(main, "element") THEN join(main["element"], "") ELSE ""
      s2 == IF Has(main, "id") THEN s1 \o "#" \o join(main["id"], "") ELSE s1
      s3 == IF Has(main, "className")
            THEN s2 \o "." \o join(main["className"], ".") ELSE s2
      s4 == IF Has(main, "attr")
            THEN s3 \o "[" \o join(main["attr"], "") \o "]" ELSE s3
      s5 == IF Has(main, "pseudoClass")
            THEN s4 \o ":" \o join(main["pseudoClass"], ":") ELSE s4
      s6 == IF Has(main, "pseudoElement")
            THEN s5 \o "::" \o join(main["pseudoElement"], "") ELSE s5
  IN s6

\* stringify that leaves this.main as it is
stringify_NoClear(this) ==
  IF Truthy(this.combinator)
  THEN ReturnString(this,
                    Interpolate(this.selector1) \o " "
                      \o Interpolate(this.combinator) \o " "
                      \o Interpolate(this.selector2))
  ELSE ReturnString(this, SimpleString(this.main))

\* the compound branch without the spaces of the template
stringify_NoSpaces(this) ==
  IF Truthy(this.combinator)
  THEN ReturnString([this EXCEPT !.main = EmptyObject],
                    Interpolate(this.selector1)
                      \o Interpolate(this.combinator)
                      \o Interpolate(this.selector2))
  ELSE ReturnString([this EXCEPT !.main = EmptyObject], SimpleString(this.main))

\* the compound branch clearing the operands and the combinator with this.main
stringify_ClearAll(this) ==
  IF Truthy(this.combinator)
  THEN ReturnString([this EXCEPT !.main = EmptyObject, !.selector1 = Undefined,
                                 !.combinator = Undefined, !.selector2 = Undefined],
                    Interpolate(this.selector1) \o " "
                      \o Interpolate(this.combinator) \o " "
                      \o Interpolate(this.selector2))
  ELSE ReturnString([this EXCEPT !.main = EmptyObject], SimpleString(this.main))

\* stringify emptying the arrays of this.main instead of replacing the object
stringify_EmptyArrays(this) ==
  IF Truthy(this.combinator)
  THEN ReturnString([this EXCEPT !.main = [k \in DOMAIN this.main |-> << >>]],
                    Interpolate(this.selector1) \o " "
                      \o Interpolate(this.combinator) \o " "
                      \o Interpolate(this.selector2))
  ELSE ReturnString([this EXCEPT !.main = [k \in DOMAIN this.main |-> << >>]],
                    SimpleString(this.main))

\* the compound branch with the operands in the wrong places
stringify_Swapped(this) ==
  IF Truthy(this.combinator)
  THEN ReturnString([this EXCEPT !.main = EmptyObject],
                    Interpolate(this.selector2) \o " "
                      \o Interpolate(this.combinator) \o " "
                      \o Interpolate(this.selector1))
  ELSE ReturnString([this EXCEPT !.main = EmptyObject], SimpleString(this.main))

\* the compound branch without its return, falling through to the simple one
stringify_FallThrough(this) ==
  IF Truthy(this.combinator)
  THEN ReturnString([this EXCEPT !.main = EmptyObject],
                    Interpolate(this.selector1) \o " "
                      \o Interpolate(this.combinator) \o " "
                      \o Interpolate(this.selector2)
                      \o SimpleString(this.main))
  ELSE ReturnString([this EXCEPT !.main = EmptyObject], SimpleString(this.main))

\* CssSelectorClass.stringify
stringify(this) ==
  IF Truthy(this.combinator)
  THEN ReturnString([this EXCEPT !.main = EmptyObject],
                    Interpolate(this.selector1) \o " "
                      \o Interpolate(this.combinator) \o " "
                      \o Interpolate(this.selector2))
  ELSE ReturnString([this EXCEPT !.main = EmptyObject], SimpleString(this.main))

\* the facade's six category entry points (lines 244-266):
\* new CssSelectorClass(<key of the category>, value)
FacadeNew(cat, value) ==
  Constructor(KeyOf(cat), value, Undefined, Undefined, Undefined)

\* an operand of combine: a reference to an instance (typeof === 'object')
\* or a raw string
Obj(ref) == [obj |-> TRUE, ref |-> ref, s |-> ""]
Raw(s) == [obj |-> FALSE, ref |-> 0, s |-> s]

\* combine reading the operand without writing the cleared instance back
OperandHeap_Untouched(h, operand) == h

\* the heap after selector.stringify() on an operand, and the string it gives
\* (lines 269, 270): typeof selector === 'object' ? selector.stringify() : selector
OperandHeap(h, operand) ==
  IF operand.obj
  THEN [h EXCEPT ![operand.ref] = stringify(h[operand.ref]).this]
  ELSE h
OperandString(h, operand) ==
  IF operand.obj THEN stringify(h[operand.ref]).s ELSE operand.s

\* combine reading both operands in the state they had at the call
combine_SameState(h, selector1, combinator, selector2) ==
  LET cssSelector1 == OperandString(h, selector1)
      h1 == OperandHeap(h, selector1)
      cssSelector2 == OperandString(h, selector2)
      h2 == OperandHeap(h1, selector2)
  IN Append(h2, Constructor("_", "_", Def(cssSelector1), Def(combinator),
                            Def(cssSelector2)))

\* cssSelectorBuilder.combine: the left operand is stringified first, the
\* right one on the heap the first stringify left; the new instance is appended
combine(h, selector1, combinator, selector2) ==
  LET cssSelector1 == OperandString(h, selector1)
      h1 == OperandHeap(h, selector1)
      cssSelector2 == OperandString(h1, selector2)
      h2 == OperandHeap(h1, selector2)
  IN Append(h2, Constructor("_", "_", Def(cssSelector1), Def(combinator),
                            Def(cssSelector2)))

(***************************************************************************)
(* State.  heap: the instances constructed so far.  hist[i]: the calls     *)
(* made on instance i, its construction first, each with its outcome.      *)
(* last: the operation of the last step, the heap it started from and      *)
(* what it handed back to the caller.                                      *)
(***************************************************************************)
Event(op, args, operands, kind, s) ==
  [op |-> op, args |-> args, operands |-> operands, kind |-> kind, s |-> s]

Step(op, self, args, operands, kind, s) ==
  [ op |-> op, self |-> self, args |-> args, operands |-> operands,
    pre |-> heap, kind |-> kind, s |-> s ]

Init ==
  /\ heap = << >>
  /\ hist = << >>
  /\ last = [ op |-> "init", self |-> 0, args |-> << >>, operands |-> << >>,
              pre |-> << >>, kind |-> "", s |-> "" ]

\* the calls the caller has made on instance i: the events of hist[i] but its
\* construction and the stringify calls combine made on it as an operand
RECURSIVE OwnCalls(_)
OwnCalls(h) ==
  IF h = << >> THEN 0
  ELSE OwnCalls(Tail(h))
         + (IF Head(h).op \in {"call", "stringify"} /\ Head(h).args # <<"combine">>
            THEN 1 ELSE 0)
Calls(i) == OwnCalls(hist[i])

\* cssSelectorBuilder.element(value), .id(value), ... : a fresh instance
Facade(cat, value) ==
  /\ heap' = Append(heap, FacadeNew(cat, value))
  /\ hist' = Append(hist, << Event("new", <<cat, value>>, << >>, "return", "") >>)
  /\ last' = Step("new", Len(heap) + 1, <<cat, value>>, << >>, "return", "")

\* the category call with this.main one object shared by all the instances
Call_SharedMain(i, cat, value) ==
  LET r == Invoke(heap[i], cat, value)
  IN /\ heap' = [j \in DOMAIN heap |-> [heap[j] EXCEPT !.main = r.this.main]]
     /\ hist' = [hist EXCEPT ![i] = Append(@, Event("call", <<cat, value>>, << >>, r.kind, r.s))]
     /\ last' = Step("call", i, <<cat, value>>, << >>, r.kind, r.s)

\* heap[i].element(value), .id(value), ... : the caller holds reference i
Call(i, cat, value) ==
  LET r == Invoke(heap[i], cat, value)
  IN /\ heap' = [heap EXCEPT ![i] = r.this]
     /\ hist' = [hist EXCEPT ![i] = Append(@, Event("call", <<cat, value>>, << >>, r.kind, r.s))]
     /\ last' = Step("call", i, <<cat, value>>, << >>, r.kind, r.s)

\* heap[i].stringify()
Stringify(i) ==
  LET r == stringify(heap[i])
  IN /\ heap' = [heap EXCEPT ![i] = r.this]
     /\ hist' = [hist EXCEPT ![i] = Append(@, Event("stringify", << >>, << >>, r.kind, r.s))]
     /\ last' = Step("stringify", i, << >>, << >>, r.kind, r.s)

\* the stringify call combine makes on a builder operand, as an event of it
\* (args names the caller)
OperandHist(hs, h, operand) ==
  IF operand.obj
  THEN [hs EXCEPT ![operand.ref] =
          Append(@, Event("stringify", <<"combine">>, << >>, "string",
                          OperandString(h, operand)))]
  ELSE hs

\* what the caller sees an operand as when it calls combine: the raw string,
\* or the string stringify() gives on the state the builder is in at the call
Seen(operand) ==
  IF operand.obj THEN stringify(heap[operand.ref]).s ELSE operand.s

\* cssSelectorBuilder.combine(selector1, combinator, selector2); the event of
\* the new instance records the call: the combinator, the operands, what
\* each was seen as at the call, and (s) the string stringify() would give on
\* the instance as combine returns it
Combine(selector1, combinator, selector2) ==
  LET h1 == OperandHeap(heap, selector1)
      hs1 == OperandHist(hist, heap, selector1)
      hs2 == OperandHist(hs1, h1, selector2)
      new == combine(heap, selector1, combinator, selector2)
  IN /\ heap' = new
     /\ hist' = Append(hs2, << Event("combine",
                                     <<combinator, Seen(selector1), Seen(selector2)>>,
                                     <<selector1, selector2>>, "return",
                                     stringify(new[Len(new)]).s) >>)
     /\ last' = Step("combine", Len(heap) + 1, <<combinator>>,
                     <<selector1, selector2>>, "return", "")

Refs == 1..Len(heap)
CategoryNames == {Categories[n] : n \in 1..Len(Categories)}
Operands == {Obj(i) : i \in Refs} \cup {Raw(x) : x \in RawStrings}

\* steps taken so far: one per instance constructed, one per call on one
RECURSIVE SumCalls(_)
SumCalls(n) == IF n = 0 THEN 0 ELSE Calls(n) + SumCalls(n - 1)
Steps == Len(heap) + SumCalls(Len(heap))

(***************************************************************************)
(* Spec: any caller of the facade, up to MaxSteps steps.                   *)
(***************************************************************************)
DoFacade == Steps < MaxSteps /\ \E cat \in CategoryNames, v \in Values : Facade(cat, v)
DoCall == Steps < MaxSteps /\ \E i \in Refs, cat \in CategoryNames, v \in Values : Call(i, cat, v)
DoStringify == Steps < MaxSteps /\ \E i \in Refs : Stringify(i)
DoCombine ==
  /\ Steps < MaxSteps
  /\ \E l \in Operands, r \in Operands, c \in Combinators : Combine(l, c, r)

Next == DoFacade \/ DoCall \/ DoStringify \/ DoCombine

Spec == Init /\ [][Next]_vars

(***************************************************************************)
(* SpecChain: one chain, builder.<category>(v).<category>(v)... with       *)
(* stringify anywhere in it, on the instance the first call returned.      *)
(***************************************************************************)
ChainFacade == Len(heap) = 0 /\ \E cat \in CategoryNames, v \in Values : Facade(cat, v)
ChainCall ==
  /\ Len(heap) = 1 /\ Calls(1) < MaxChain
  /\ \E cat \in CategoryNames, v \in Values : Call(1, cat, v)
ChainStringify == Len(heap) = 1 /\ Calls(1) < MaxChain /\ Stringify(1)

NextChain == ChainFacade \/ ChainCall \/ ChainStringify

SpecChain == Init /\ [][NextChain]_vars

(***************************************************************************)
(* SpecIso: two instances of the facade, calls on them interleaved.        *)
(***************************************************************************)
IsoFacade == Len(heap) < 2 /\ \E cat \in CategoryNames, v \in Values : Facade(cat, v)
IsoCall ==
  /\ SumCalls(Len(heap)) < MaxIsoCalls
  /\ \E i \in Refs, cat \in CategoryNames, v \in Values : Call(i, cat, v)
IsoStringify == SumCalls(Len(heap)) < MaxIsoCalls /\ \E i \in Refs : Stringify(i)

NextIso == IsoFacade \/ IsoCall \/ IsoStringify

SpecIso == Init /\ [][NextIso]_vars

(***************************************************************************)
(* SpecNested: a caller that evaluates one expression combining three      *)
(* operands X, Y, Z, as the example of lines 102-115 does: nested calls of *)
(* builder.combine whose arguments are raw strings, facade calls or        *)
(* combine calls.  JavaScript evaluates arguments left to right and each   *)
(* instance is the value of one sub-expression: combine is handed the      *)
(* latest instances not yet handed to a combine, the left one made before  *)
(* the right one.  The compounds are stringified at any point.             *)
(***************************************************************************)
OperandNames == {"X", "Y", "Z"}

\* instance i was returned by combine
IsCompound(i) == hist[i][1].op = "combine"

\* instance i has been passed to combine
Passed(i) ==
  \E n \in 1..Len(hist[i]) :
    hist[i][n].op = "stringify" /\ hist[i][n].args = <<"combine">>

\* the builders made through the facade, the compounds made by combine
Builders == {i \in Refs : ~IsCompound(i)}
Compounds == {i \in Refs : IsCompound(i)}

\* the instances not yet passed to combine, and the latest of them
Pending == {i \in Refs : ~Passed(i)}
Latest(S) == CHOOSE i \in S : \A j \in S : j <= i

\* the argument lists the evaluation order allows: raw strings, the latest
\* pending instance on either side, or the two latest pending instances
NestedArguments ==
  LET raws == {Raw(x) : x \in NestedStrings}
      top == IF Pending = {} THEN {} ELSE {Obj(Latest(Pending))}
      two == IF Cardinality(Pending) < 2 THEN {}
             ELSE {<<Obj(Latest(Pending \ {Latest(Pending)})), Obj(Latest(Pending))>>}
  IN (raws \X raws) \cup (raws \X top) \cup (top \X raws) \cup two

\* the operands of the expression so far: the builders made and the raw
\* strings passed to combine
RawArguments(lr) == {k \in 1..2 : ~lr[k].obj}
Leaves ==
  Cardinality(Builders)
    + Cardinality({ik \in Compounds \X (1..2) : ~hist[ik[1]][1].operands[ik[2]].obj})

NestedFacade ==
  /\ Steps < MaxNested
  /\ Leaves < Cardinality(OperandNames)
  /\ \E cat \in CategoryNames, v \in Values : Facade(cat, v)
NestedCombine ==
  /\ Steps < MaxNested
  /\ \E lr \in NestedArguments, c \in Combinators :
       /\ Leaves + Cardinality(RawArguments(lr)) <= Cardinality(OperandNames)
       /\ Combine(lr[1], c, lr[2])
NestedStringify == Steps < MaxNested /\ \E i \in Compounds : Stringify(i)

NextNested == NestedFacade \/ NestedCombine \/ NestedStringify

SpecNested == Init /\ [][NextNested]_vars

(***************************************************************************)
(* Vocabulary of the claims.                                               *)
(***************************************************************************)
\* place of a category in the mandated order
Idx(cat) == CHOOSE n \in 1..Len(Categories) : Categories[n] = cat

\* category cat holds a fragment in main
Present(main, cat) == Has(main, KeyOf(cat))

\* the fragments of category cat in main (none when the key is absent)
Held(main, cat) == IF Present(main, cat) THEN main[KeyOf(cat)] ELSE << >>

Front(h) == SubSeq(h, 1, Len(h) - 1)

\* the values of the calls of category cat in a sequence of events, in call order
RECURSIVE Frags(_, _)
Frags(h, cat) ==
  IF h = << >> THEN << >>
  ELSE IF Head(h).op \in {"new", "call"} /\ Head(h).args[1] = cat
       THEN <<Head(h).args[2]>> \o Frags(Tail(h), cat)
       ELSE Frags(Tail(h), cat)

\* a valid call sequence: a facade category call, then category calls only,
\* in non-decreasing category order, with at most one element, id, pseudoElement
ValidSequence(h) ==
  /\ Len(h) >= 1
  /\ h[1].op = "new"
  /\ \A n \in 2..Len(h) : h[n].op = "call"
  /\ \A n \in 1..(Len(h) - 1) : Idx(h[n].args[1]) <= Idx(h[n + 1].args[1])
  /\ \A cat \in {"element", "id", "pseudoElement"} : Len(Frags(h, cat)) <= 1

\* every fragment of fs with prefix p in front of it
RECURSIVE Prefixed(_, _)
Prefixed(fs, p) ==
  IF fs = << >> THEN "" ELSE p \o Head(fs) \o Prefixed(Tail(fs), p)

\* the string the concatenation rule gives for the calls of h
Expected(h) ==
  Prefixed(Frags(h, "element"), "")
    \o Prefixed(Frags(h, "id"), "#")
    \o Prefixed(Frags(h, "class"), ".")
    \o (IF Frags(h, "attr") = << >> THEN ""
        ELSE "[" \o Prefixed(Frags(h, "attr"), "") \o "]")
    \o Prefixed(Frags(h, "pseudoClass"), ":")
    \o Prefixed(Frags(h, "pseudoElement"), "::")

\* the last step was a category call / a stringify on an instance
IsCall == last.op = "call"
IsStringify == last.op = "stringify"
\* the instance the last step was called on, before and after the step
Before == last.pre[last.self]
After == heap[last.self]

\* some category later in the order than cat holds a fragment in main
LaterPresent(main, cat) ==
  \E n \in 1..Len(Categories) : n > Idx(cat) /\ Present(main, Categories[n])

(***************************************************************************)
(* C1. Order rule: a category call made while a category later in the     *)
(* order holds a fragment on the instance raises an error instead of       *)
(* returning the builder; so a call that returns never adds a fragment of  *)
(* a category earlier than one already present.                            *)
(***************************************************************************)
C1_OrderRule ==
  IsCall =>
    /\ LaterPresent(Before.main, last.args[1]) =>
         /\ last.kind = "throw"
         /\ last.s \in {errorMsgOrder, errorMsgUnique}
    /\ last.kind = "return" =>
         \A n \in 1..Len(Categories) :
           Present(Before.main, Categories[n]) => n <= Idx(last.args[1])

\* class('b') rejected on an instance that holds an attr fragment
C1_Witness ==
  /\ IsCall /\ last.args[1] = "class"
  /\ Present(Before.main, "attr") /\ ~Present(Before.main, "pseudoClass")
  /\ ~Present(Before.main, "pseudoElement")
  /\ last.kind = "throw" /\ last.s = errorMsgOrder

(***************************************************************************)
(* C2. Uniqueness rule: element, id or pseudoElement called while that     *)
(* category already holds a fragment raises the uniqueness error; class,   *)
(* attr and pseudoClass never raise it, however often they are called.     *)
(***************************************************************************)
C2_UniquenessRule ==
  IsCall =>
    /\ ( /\ last.args[1] \in {"element", "id", "pseudoElement"}
         /\ Present(Before.main, last.args[1]) )
       => (last.kind = "throw" /\ last.s = errorMsgUnique)
    /\ last.args[1] \in {"class", "attr", "pseudoClass"}
       => ~(last.kind = "throw" /\ last.s = errorMsgUnique)

\* element called a second time on a chain that began element, id: the
\* uniqueness error, although the order is broken too
C2_Witness ==
  /\ IsCall /\ last.args[1] = "element"
  /\ Present(Before.main, "element") /\ Present(Before.main, "id")
  /\ last.kind = "throw" /\ last.s = errorMsgUnique

(***************************************************************************)
(* C3. For a valid call sequence, stringify() returns the element          *)
(* fragment, '#' + the id fragment, '.' + the class fragments joined by    *)
(* '.', '[' + the attr fragments concatenated + ']', ':' + the             *)
(* pseudo-class fragments joined by ':', '::' + the pseudo-element         *)
(* fragment, fragments in call order, absent categories giving nothing.    *)
(***************************************************************************)
C3_StringifyRule ==
  (IsStringify /\ ValidSequence(Front(hist[last.self])))
    => last.s = Expected(Front(hist[last.self]))

\* attr('a').attr('b').pseudoClass('a').stringify() gave '[ab]:a'
C3_Witness ==
  /\ IsStringify /\ ValidSequence(Front(hist[last.self]))
  /\ Frags(hist[last.self], "attr") = <<"a", "b">>
  /\ Frags(hist[last.self], "pseudoClass") = <<"a">>
  /\ last.s = "[ab]:a"

(***************************************************************************)
(* C4. Fluent chaining: in a valid call sequence no call raises, each      *)
(* returns the instance it was called on, and the instance then holds, per *)
(* category, exactly the fragments of the calls in call order.             *)
(***************************************************************************)
C4_FluentChaining ==
  \A i \in 1..Len(heap) :
    ValidSequence(hist[i]) =>
      /\ \A n \in 1..Len(hist[i]) : hist[i][n].kind = "return"
      /\ \A n \in 1..Len(Categories) :
           Held(heap[i].main, Categories[n]) = Frags(hist[i], Categories[n])
      /\ DOMAIN heap[i].main \subseteq {KeyOf(Categories[n]) : n \in 1..Len(Categories)}

\* id('a').class('b').class('a').attr('b') all returned the builder
C4_Witness ==
  /\ Len(heap) = 1 /\ ValidSequence(hist[1]) /\ Len(hist[1]) = 4
  /\ IsCall /\ last.kind = "return"
  /\ Frags(hist[1], "class") = <<"b", "a">>
  /\ heap[1].main["className"] = <<"b", "a">>
  /\ Present(heap[1].main, "id") /\ Present(heap[1].main, "attr")

(***************************************************************************)
(* C6. stringify() on a simple selector clears the accumulated state: all  *)
(* six categories are absent afterwards, and a second stringify() right    *)
(* after it returns the empty string.                                      *)
(***************************************************************************)
C6_StringifyClears ==
  (IsStringify /\ ~Truthy(Before.combinator)) =>
    /\ \A n \in 1..Len(Categories) : ~Present(After.main, Categories[n])
    /\ LET h == hist[last.self]
       IN (Len(h) >= 2 /\ h[Len(h) - 1].op = "stringify") => last.s = ""

\* a second stringify() right after one that returned '#a.b'
C6_Witness ==
  /\ IsStringify /\ ~Truthy(Before.combinator)
  /\ LET h == hist[last.self]
     IN /\ Len(h) >= 3 /\ h[Len(h) - 1].op = "stringify"
        /\ h[Len(h) - 1].s = "#a.b"
  /\ last.s = ""

(***************************************************************************)
(* C8. Cardinality.  As claimed: in every reachable state, states after a  *)
(* rejected call included, element, id and pseudo-element each hold at     *)
(* most one fragment.                                                      *)
(***************************************************************************)
C8_Original ==
  \A i \in 1..Len(heap) :
    \A cat \in {"element", "id", "pseudoElement"} :
      Len(Held(heap[i].main, cat)) <= 1

\* the events of h after its last stringify
RECURSIVE SinceClear(_)
SinceClear(h) ==
  IF h = << >> THEN << >>
  ELSE IF h[Len(h)].op = "stringify" THEN << >>
       ELSE Append(SinceClear(Front(h)), h[Len(h)])

\* no call on the instance has raised since it was made or last stringified
NoneRejected(h) == \A n \in 1..Len(SinceClear(h)) : SinceClear(h)[n].kind # "throw"

\* C8 as amended: on an instance no call has raised on since it was made or
\* last stringified, element, id and pseudo-element each hold at most one
\* fragment; a call that raises the uniqueness error leaves its fragment
\* behind, so that the category then holds more than one
C8_Cardinality ==
  \A i \in 1..Len(heap) :
    \A cat \in {"element", "id", "pseudoElement"} :
      /\ NoneRejected(hist[i]) => Len(Held(heap[i].main, cat)) <= 1
      /\ ( /\ IsCall /\ last.self = i /\ last.args[1] = cat
           /\ last.kind = "throw" /\ last.s = errorMsgUnique )
         => Len(Held(heap[i].main, cat)) >= 2

\* element, id and pseudoElement each called once, none rejected
C8_Witness ==
  /\ Len(heap) = 1 /\ NoneRejected(hist[1]) /\ Len(hist[1]) = 3
  /\ \A cat \in {"element", "id", "pseudoElement"} :
       Len(Held(heap[1].main, cat)) = 1

(***************************************************************************)
(* Compound selectors.                                                     *)
(***************************************************************************)
\* an instance record is a compound one: combine gave it its combinator
IsCompoundInstance(this) == Truthy(this.combinator)

\* the operands of a combine call are not one and the same instance
Distinct(operands) ==
  ~(operands[1].obj /\ operands[2].obj /\ operands[1].ref = operands[2].ref)

\* the references among the operands of a combine call
OperandRefs(operands) ==
  {operands[n].ref : n \in {m \in 1..Len(operands) : operands[m].obj}}

(***************************************************************************)
(* C5. For distinct operands L and R, raw strings or builders, and a       *)
(* combinator c of ' ', '+', '~', '>', combine(L, c, R).stringify()        *)
(* returns sL + ' ' + c + ' ' + sR, sL and sR being the raw string or what *)
(* the builder's stringify() gives on its state at the combine call; the   *)
(* space combinator puts exactly three spaces between sL and sR.           *)
(***************************************************************************)
C5_CombineString ==
  (IsStringify /\ IsCompound(last.self)) =>
    LET e == hist[last.self][1]
        c == e.args[1]
        sL == e.args[2]
        sR == e.args[3]
    IN (Distinct(e.operands) /\ c \in {" ", "+", "~", ">"}) =>
         /\ last.s = sL \o " " \o c \o " " \o sR
         /\ c = " " => last.s = sL \o "   " \o sR

\* combine(builder.id('a'), ' ', builder.class('b')).stringify() on two
\* builder instances gave '#a   .b'
C5_Witness ==
  /\ IsStringify /\ last.self = 3 /\ IsCompound(3)
  /\ hist[3][1].operands = <<Obj(1), Obj(2)>>
  /\ ~IsCompound(1) /\ ~IsCompound(2)
  /\ hist[3][1].args = <<" ", "#a", ".b">>
  /\ last.s = "#a   .b"

\* the last step and the step before it on the same instance were stringify
TwiceInSuccession ==
  /\ IsStringify
  /\ Len(hist[last.self]) >= 2
  /\ hist[last.self][Len(hist[last.self]) - 1].op = "stringify"
\* what the first of the two returned
FirstOfTwo == hist[last.self][Len(hist[last.self]) - 1].s

(***************************************************************************)
(* C7. As claimed: a compound builder is single-use, stringify() called    *)
(* twice in succession on it returns two different results.                *)
(***************************************************************************)
C7_Original ==
  (TwiceInSuccession /\ IsCompound(last.self)) => last.s # FirstOfTwo

\* C7 as amended: stringify() called twice in succession on a compound
\* builder returned by combine returns the same string both times (only
\* this.main is cleared, the operands and the combinator are kept); it is the
\* simple builder whose second result is the empty string
C7_CompoundRepeatable ==
  /\ (TwiceInSuccession /\ IsCompound(last.self)) => last.s = FirstOfTwo
  /\ (TwiceInSuccession /\ ~IsCompound(last.self)) => last.s = ""

\* combine('x', '+', 'x'), stringify(), stringify(): 'x + x' twice
C7_Witness ==
  /\ TwiceInSuccession /\ IsCompound(last.self)
  /\ FirstOfTwo = "x + x" /\ last.s = "x + x"

(***************************************************************************)
(* C9. As claimed: combine leaves every builder passed as left or right    *)
(* with the fragments it had, and stringifying to the same string.         *)
(***************************************************************************)
C9_Original ==
  last.op = "combine" =>
    \A i \in OperandRefs(last.operands) :
      /\ heap[i].main = last.pre[i].main
      /\ stringify(heap[i]).s = stringify(last.pre[i]).s

\* C9 as amended: combine calls stringify() on every builder passed as left
\* or right, which clears the fragments that builder had accumulated: after
\* the call each such operand holds no fragment, a simple one stringifies to
\* the empty string and a compound one to the string it gave before.  Nothing
\* else of the operands, and no other instance, is changed; the one instance
\* added is the compound returned.
C9_CombineClearsOperands ==
  last.op = "combine" =>
    /\ Len(heap) = Len(last.pre) + 1 /\ last.self = Len(heap)
    /\ \A i \in 1..Len(last.pre) :
         IF i \in OperandRefs(last.operands)
         THEN /\ heap[i] = [last.pre[i] EXCEPT !.main = EmptyObject]
              /\ stringify(heap[i]).s =
                   IF Truthy(last.pre[i].combinator)
                   THEN stringify(last.pre[i]).s ELSE ""
         ELSE heap[i] = last.pre[i]

\* combine(A, c, 'x') with A a simple builder holding a fragment, made while
\* another builder B exists: A is emptied, B is as it was
C9_Witness ==
  /\ last.op = "combine" /\ Len(last.pre) = 2
  /\ last.operands = <<Obj(1), Raw("x")>>
  /\ last.pre[1].main # EmptyObject /\ heap[1].main = EmptyObject
  /\ heap[2] = last.pre[2] /\ heap[2].main # EmptyObject

\* the events es run on an instance by itself: the instance they leave and
\* whether every outcome is the recorded one
RECURSIVE Alone(_, _)
Alone(this, es) ==
  IF es = << >> THEN [this |-> this, same |-> TRUE]
  ELSE LET e == Head(es)
           r == IF e.op = "call" THEN Invoke(this, e.args[1], e.args[2])
                ELSE stringify(this)
           rest == Alone(r.this, Tail(es))
       IN [this |-> rest.this,
           same |-> rest.same /\ r.kind = e.kind /\ r.s = e.s]

(***************************************************************************)
(* C10. Instance isolation: a facade category call returns a fresh         *)
(* instance holding exactly one fragment, in that category; and whatever   *)
(* the interleaving of calls on two instances, every outcome on one        *)
(* instance is what its own calls alone give.                              *)
(***************************************************************************)
C10_Isolation ==
  /\ \A i \in 1..Len(heap) :
       hist[i][1].op = "new" =>
         LET alone == Alone(FacadeNew(hist[i][1].args[1], hist[i][1].args[2]),
                            Tail(hist[i]))
         IN alone.same /\ alone.this = heap[i]
  /\ last.op = "new" =>
       /\ last.self = Len(last.pre) + 1 /\ Len(heap) = last.self
       /\ DOMAIN After.main = {KeyOf(last.args[1])}
       /\ After.main[KeyOf(last.args[1])] = <<last.args[2]>>
       /\ \A i \in 1..Len(last.pre) : heap[i] = last.pre[i]

\* two instances, a call made on each, the later call on the first one made
\* while the second instance held a fragment that would have had it rejected
C10_Witness ==
  /\ Len(heap) = 2 /\ IsCall /\ last.self = 1
  /\ Len(hist[1]) = 2 /\ Len(hist[2]) = 2
  /\ last.kind = "return" /\ last.args[1] = "id"
  /\ Present(heap[2].main, "pseudoElement")

(***************************************************************************)
(* C11. As claimed: element called while a later category is set, and id   *)
(* called while a later category is set, raise the order error, whether or *)
(* not the element (id) category already holds an entry.                   *)
(***************************************************************************)
C11_Original ==
  (IsCall /\ last.args[1] \in {"element", "id"}
          /\ LaterPresent(Before.main, last.args[1]))
    => (last.kind = "throw" /\ last.s = errorMsgOrder)

\* C11 as amended: element (id) called while a later category is set raises
\* the order error when the element (id) category held no entry before the
\* call; when it already held one the uniqueness check, which is made first,
\* raises the uniqueness error instead
C11_ErrorKind ==
  (IsCall /\ last.args[1] \in {"element", "id"}
          /\ LaterPresent(Before.main, last.args[1]))
    => /\ last.kind = "throw"
       /\ last.s = IF Present(Before.main, last.args[1])
                   THEN errorMsgUnique ELSE errorMsgOrder

\* class('a'), id('b') rejected for the order, id('a') rejected again, now
\* for uniqueness
C11_Witness ==
  /\ IsCall /\ last.args[1] = "id"
  /\ Present(Before.main, "class") /\ Present(Before.main, "id")
  /\ Len(hist[last.self]) = 3
  /\ hist[last.self][2].kind = "throw" /\ hist[last.self][2].s = errorMsgOrder
  /\ last.kind = "throw" /\ last.s = errorMsgUnique

\* the string the code builds from all the calls of h, rejected ones included
ExpectedAll(h) ==
  Prefixed(Frags(h, "element"), "")
    \o (IF Frags(h, "id") = << >> THEN ""
        ELSE "#" \o Prefixed(Frags(h, "id"), ""))
    \o Prefixed(Frags(h, "class"), ".")
    \o (IF Frags(h, "attr") = << >> THEN ""
        ELSE "[" \o Prefixed(Frags(h, "attr"), "") \o "]")
    \o Prefixed(Frags(h, "pseudoClass"), ":")
    \o (IF Frags(h, "pseudoElement") = << >> THEN ""
        ELSE "::" \o Prefixed(Frags(h, "pseudoElement"), ""))

(***************************************************************************)
(* C13. A rejected call is not state-preserving: every category call       *)
(* appends its fragment before any check, so after a call that raises      *)
(* either error the instance holds the rejected fragment, and a later      *)
(* stringify() includes it.                                                *)
(***************************************************************************)
C13_RejectedFragmentKept ==
  /\ IsCall =>
       /\ Held(After.main, last.args[1])
            = Append(Held(Before.main, last.args[1]), last.args[2])
       /\ \A k \in DOMAIN Before.main \ {KeyOf(last.args[1])} :
            Has(After.main, k) /\ After.main[k] = Before.main[k]
  /\ (IsStringify /\ ~IsCompoundInstance(Before)) =>
       last.s = ExpectedAll(SinceClear(Front(hist[last.self])))

\* class('a'), the rejected id('b'), stringify(): '#b.a'
C13_Witness ==
  /\ IsStringify /\ Len(hist[last.self]) = 3
  /\ hist[last.self][1].args = <<"class", "a">>
  /\ hist[last.self][2].args = <<"id", "b">>
  /\ hist[last.self][2].kind = "throw"
  /\ last.s = "#b.a"

\* a builder with no fragments
NoFragments ==
  [ main |-> EmptyObject, selector1 |-> Undefined,
    combinator |-> Undefined, selector2 |-> Undefined ]

\* h holds a stringify
Stringified(h) == \E n \in 1..Len(h) : h[n].op = "stringify"

(***************************************************************************)
(* C14. No consumed state is kept after stringify(): a simple builder that *)
(* has been stringified behaves like a builder with no fragments, every    *)
(* later call being accepted or rejected, and every later stringify()      *)
(* computed, from the fragments added after that stringify() alone.        *)
(***************************************************************************)
C14_NoConsumedState ==
  \A i \in 1..Len(heap) :
    (hist[i][1].op = "new" /\ Stringified(hist[i])) =>
      LET alone == Alone(NoFragments, SinceClear(hist[i]))
      IN alone.same /\ alone.this = heap[i]

\* pseudoElement('a'), stringify(), element('b') accepted
C14_Witness ==
  /\ Len(heap) = 1 /\ Len(hist[1]) = 3
  /\ hist[1][1].args[1] = "pseudoElement"
  /\ hist[1][2].op = "stringify" /\ hist[1][2].s = "::a"
  /\ IsCall /\ last.args = <<"element", "b">> /\ last.kind = "return"
  /\ heap[1].main = [k \in {"element"} |-> <<"b">>]

\* what the compound instance i is made of, compounds among its operands
\* taken apart in turn: the leaves as they were seen, the combinators between
RECURSIVE Flat(_)
Flat(i) ==
  LET e == hist[i][1]
      part(n) == IF e.operands[n].obj /\ IsCompound(e.operands[n].ref)
                 THEN Flat(e.operands[n].ref)
                 ELSE e.args[n + 1]
  IN part(1) \o " " \o e.args[1] \o " " \o part(2)

\* no combine call under the compound instance i was given one instance twice
RECURSIVE AllDistinct(_)
AllDistinct(i) ==
  LET e == hist[i][1]
  IN /\ Distinct(e.operands)
     /\ \A n \in 1..2 :
          (e.operands[n].obj /\ IsCompound(e.operands[n].ref))
            => AllDistinct(e.operands[n].ref)

\* a compound is among the operands the compound instance i was made of
Nested(i) ==
  \E n \in 1..2 :
    hist[i][1].operands[n].obj /\ IsCompound(hist[i][1].operands[n].ref)

(***************************************************************************)
(* C12. Nested combination is flat and associative: for distinct operands  *)
(* X, Y, Z, combine(X, c1, combine(Y, c2, Z)).stringify() and              *)
(* combine(combine(X, c1, Y), c2, Z).stringify() both return               *)
(* sX + ' ' + c1 + ' ' + sY + ' ' + c2 + ' ' + sZ; a compound operand is   *)
(* stringified like any other builder.                                     *)
(***************************************************************************)
C12_NestedFlat ==
  (IsStringify /\ IsCompound(last.self) /\ Nested(last.self)
     /\ AllDistinct(last.self))
    => last.s = Flat(last.self)

\* with three builders as operands, as in the example of lines 102-115,
\* combine(element('a'), '+', combine(id('b'), '~', class('a'))).stringify()
\* gave 'a + #b ~ .a'
C12_Witness ==
  /\ IsStringify /\ last.self = 5
  /\ Builders = {1, 2, 3} /\ Compounds = {4, 5}
  /\ hist[4][1].operands = <<Obj(2), Obj(3)>>
  /\ hist[5][1].operands = <<Obj(1), Obj(4)>>
  /\ hist[4][1].args = <<"~", "#b", ".a">>
  /\ hist[5][1].args = <<"+", "a", "#b ~ .a">>
  /\ last.s = "a + #b ~ .a"

(***************************************************************************)
(* C15. Aliased operands: combine(A, c, A) with A a simple builder holding *)
(* a fragment stringifies A as the left operand first, which consumes it,  *)
(* so that the compound stringifies to sA + ' ' + c + ' ' and then the     *)
(* empty string, sA being what A stringified to before the call.           *)
(***************************************************************************)
C15_AliasedOperands ==
  (IsStringify /\ IsCompound(last.self)) =>
    LET e == hist[last.self][1]
        sA == e.args[2]
    IN ( /\ ~Distinct(e.operands)
         /\ ~IsCompound(e.operands[1].ref) /\ sA # "" )
       => /\ e.args[3] = sA
          /\ last.s = sA \o " " \o e.args[1] \o " " \o ""
          /\ last.s # sA \o " " \o e.args[1] \o " " \o sA

\* A = builder.id('a'), combine(A, '+', A).stringify() gave '#a + '
C15_Witness ==
  /\ IsStringify /\ IsCompound(last.self)
  /\ hist[last.self][1].operands = <<Obj(1), Obj(1)>>
  /\ hist[1][1].op = "new"
  /\ hist[last.self][1].args = <<"+", "#a", "#a">>
  /\ last.s = "#a + "

(***************************************************************************)
(* C16. Category calls on a compound builder never change its string:      *)
(* whatever calls are made on a compound K returned by combine with a      *)
(* combinator of ' ', '+', '~', '>', returning or raising, K.stringify()   *)
(* returns the string it would have returned right after combine.          *)
(***************************************************************************)
C16_CallsKeepCompoundString ==
  /\ (IsStringify /\ IsCompound(last.self)
        /\ hist[last.self][1].args[1] \in {" ", "+", "~", ">"})
       => last.s = hist[last.self][1].s
  /\ (IsCall /\ IsCompound(last.self)
        /\ hist[last.self][1].args[1] \in {" ", "+", "~", ">"})
       => stringify(After).s = hist[last.self][1].s

\* K = combine('x', '>', 'x'), K.class('a'), K.stringify() gave 'x > x'
C16_Witness ==
  /\ IsStringify /\ IsCompound(last.self)
  /\ Len(hist[last.self]) = 3
  /\ hist[last.self][1].args[1] = ">"
  /\ hist[last.self][2].op = "call" /\ hist[last.self][2].args = <<"class", "a">>
  /\ Present(Before.main, "class")
  /\ last.s = "x > x"

====
